---- MODULE Spec2Model ----
(***************************************************************************)
(* Model of LocalReranker.execute (src/LocalReranker.node.js).             *)
(*                                                                         *)
(* One invocation of execute is a run of the state machine below: the     *)
(* parameter and input validation, the model-weight parsing, the global   *)
(* document-frequency pass, the sequential batch loop and the final sort  *)
(* and slice are one action each; a throw inside the try block is folded  *)
(* into the action that throws, which stores the catch block's result.    *)
(*                                                                         *)
(* Numbers.  JavaScript doubles are modelled in fixed point: the four raw *)
(* signals, the weights and the model coefficients are integers in        *)
(* thousandths, rerank_score is an integer in millionths (a product of    *)
(* two thousandths, never rounded in linear mode).  Math.log and Math.exp *)
(* are tabulated at that resolution.  Time is counted in whole days.      *)
(* A double that can be NaN (a BM25 value, a normalized BM25, a final     *)
(* score, an entry of a plain object used as a map) is <<v>> for the       *)
(* number v and <<>> for NaN or any other value that is not a number.      *)
(*                                                                         *)
(* Text.  A string is a sequence of one-character strings over a small    *)
(* alphabet; tok is computed as the code computes it.  A numeric node     *)
(* parameter is <<>> when it is missing or not a number (Number() gives   *)
(* NaN) and <<v>> when it is the number v.                                 *)
(***************************************************************************)
EXTENDS Integers, Sequences, FiniteSets, TLC

VARIABLES
    input,         \* getInputData(): the invocation's input items
    cfg,           \* the node parameters getNodeParameter returns
    pc,            \* where execute is: start, model, globalDF, batches, done
    stages,        \* the stages of the pipeline this invocation has run
    warned,        \* the weight-sum warning was sent to the logger
    qTok, docs, now, modelWeights, globalDF, i, results,   \* execute's locals
    iter,          \* parity of the number of batch-loop iterations run
    out,           \* the array execute returns
    run, prevOut, prevNow   \* invocation number, and the previous one's result

vars == <<input, cfg, pc, stages, warned, qTok, docs, now, modelWeights,
          globalDF, i, results, iter, out, run, prevOut, prevNow>>

---------------------------------------------------------------------------
\* Bounds of the model.

\* longest candidate list
MaxDocs == 3
\* the loop index i is a double: it stops changing once i + batchSize rounds
\* back to i; the model lets that happen at -MaxNegIndex
MaxNegIndex == 2
\* invocations in a row on the same input (SpecRerun)
MaxRuns == 2

---------------------------------------------------------------------------
\* Program constants.

DefaultTopN == 5
DefaultBatchSize == 200
DefaultHalfLife == 60
DefaultMinTokenLength == 2
DefaultSemWeight == 700
DefaultLexWeight == 250
DefaultExactWeight == 100
DefaultTimeWeight == 50
\* k1 = 1.2 in tenths, b = 0.75 in hundredths
K1x10 == 12
Bx100 == 75
MissingAgeDays == 999
ModelWeightCount == 5

---------------------------------------------------------------------------
\* Small helpers.

Min(a, b) == IF a < b THEN a ELSE b
Max(a, b) == IF a > b THEN a ELSE b
Range(s) == {s[k] : k \in 1..Len(s)}

SeqsUpTo(S, n) == UNION {[1..k -> S] : k \in 0..n}

\* a / b on doubles, in fixed point; a division by zero gives no exception in
\* JavaScript, and no reachable state divides by zero
Div(a, b) == IF b = 0 THEN 0 ELSE a \div b

\* Number(p) || d
NumberOr(p, d) == IF p = <<>> THEN d ELSE IF p[1] = 0 THEN d ELSE p[1]

\* Array.prototype.slice(a, b): negative indices count from the end
SliceIndex(n, k) == IF k < 0 THEN Max(n + k, 0) ELSE Min(k, n)

slice(s, a, b) ==
    LET from == SliceIndex(Len(s), a)
        to   == SliceIndex(Len(s), b)
    IN  IF to <= from THEN <<>> ELSE SubSeq(s, from + 1, to)

\* Math.sqrt on the squared norms of the model's vectors
Sqrt(n) == CHOOSE r \in 0..n : r * r <= n /\ (r + 1) * (r + 1) > n

\* Math.log(n) in thousandths
LnTable == <<0, 693, 1099, 1386, 1609, 1792, 1946, 2079, 2197, 2303,
             2398, 2485, 2565, 2639, 2708, 2773, 2833, 2890, 2944, 2996>>

LnMilli(n) == LnTable[n]

\* Math.exp(-x) in thousandths for x >= 0 in thousandths, at steps of 0.25
ExpTable == <<1000, 779, 607, 472, 368, 287, 223, 174, 135, 105, 82, 64, 50,
              39, 30, 24, 18, 14, 11, 9, 7, 5, 4, 3, 2, 2, 2, 1, 1>>

ExpNegMilli(x) ==
    LET q == x \div 250
    IN  IF q + 1 > Len(ExpTable) THEN 0 ELSE ExpTable[q + 1]

\* 1 / (1 + Math.exp(-v)) in thousandths
Sigmoid(v) ==
    IF v >= 0 THEN 1000000 \div (1000 + ExpNegMilli(v))
    ELSE 1000 - (1000000 \div (1000 + ExpNegMilli(-v)))

---------------------------------------------------------------------------
\* Text: toLowerCase, trim, split, and the tokenizer tok.

Lower(c) == CASE c = "X" -> "x" [] c = "Y" -> "y" [] OTHER -> c

toLowerCase(s) == [k \in 1..Len(s) |-> Lower(s[k])]

\* \p{L} and \p{N} over the model's alphabet
IsLetterOrNumber(c) ==
    c \in {"a", "b", "c", "n", "o", "r", "s", "t", "u", "x", "y", "X", "Y"}

RECURSIVE trimLeft(_)
trimLeft(s) == IF s # <<>> /\ Head(s) = " " THEN trimLeft(Tail(s)) ELSE s

RECURSIVE trimRight(_)
trimRight(s) ==
    IF s # <<>> /\ s[Len(s)] = " " THEN trimRight(SubSeq(s, 1, Len(s) - 1)) ELSE s

trim(s) == trimRight(trimLeft(s))

\* replace(/[^\p{L}\p{N}]+/gu, " "): each maximal run becomes one space
replaceNonWord(s) ==
    LET F[k \in 0..Len(s)] ==
            IF k = 0 THEN <<>>
            ELSE IF IsLetterOrNumber(s[k]) THEN Append(F[k - 1], s[k])
            ELSE IF k > 1 /\ ~IsLetterOrNumber(s[k - 1]) THEN F[k - 1]
            ELSE Append(F[k - 1], " ")
    IN  F[Len(s)]

\* split(sep) for a one-character separator: always at least one field
split(s, sep) ==
    LET F[k \in 0..Len(s)] ==
            IF k = 0 THEN << <<>> >>
            ELSE IF s[k] = sep THEN Append(F[k - 1], <<>>)
            ELSE [F[k - 1] EXCEPT ![Len(F[k - 1])] = Append(@, s[k])]
    IN  F[Len(s)]

\* the ASCII entries of BASE_STOP (the Cyrillic ones are outside the alphabet)
BASE_STOP == { <<"t", "h", "e">>, <<"i", "s">>, <<"a", "t">>, <<"o", "n">>,
               <<"a">>, <<"a", "n">>, <<"a", "n", "d">>, <<"o", "r">> }

\* customStopwords.split(",").map(s => s.trim().toLowerCase()).filter(Boolean)
customStop(str) ==
    LET fields == split(str, ",")
        clean == [k \in 1..Len(fields) |-> toLowerCase(trim(fields[k]))]
    IN  {clean[k] : k \in {j \in 1..Len(fields) : clean[j] # <<>>}}

STOP(c) == BASE_STOP \cup customStop(c.customStopwords)

minTokenLength(c) == NumberOr(c.minTokenLength, DefaultMinTokenLength)

\* normalize("NFC") changes nothing over the model's alphabet; after the
\* replace every whitespace run is one space, so split(/\s+/) is split(" ")
tok(t, c) ==
    LET words == split(replaceNonWord(toLowerCase(t)), " ")
        keep(w) == Len(w) >= minTokenLength(c) /\ w \notin STOP(c)
    IN  SelectSeq(words, keep)

---------------------------------------------------------------------------
\* Node parameters as execute reads them.

topN(c) == NumberOr(c.topN, DefaultTopN)

batchSize(c) == NumberOr(c.batchSize, DefaultBatchSize)

recencyHalfLife(c) == NumberOr(c.recencyHalfLife, DefaultHalfLife)

\* String(getNodeParameter("normalizeMethod") || "sigmoid")
normalizeMethod(c) == IF c.normalizeMethod = "" THEN "sigmoid" ELSE c.normalizeMethod

W(c) == [sem   |-> NumberOr(c.semWeight, DefaultSemWeight),
         lex   |-> NumberOr(c.lexWeight, DefaultLexWeight),
         exact |-> NumberOr(c.exactWeight, DefaultExactWeight),
         time  |-> NumberOr(c.timeWeight, DefaultTimeWeight)]

sumW(c) == W(c).sem + W(c).lex + W(c).exact + W(c).time

\* the soft validation: a warning when the sum leaves [0.9, 1.1]
weightWarning(c) == sumW(c) < 900 \/ sumW(c) > 1100

\* modelWeightsStr.split(",").map(x => Number(x.trim())).filter(x => !isNaN(x)).
\* The string is kept as its comma-separated fields; a field is a numeric
\* literal, blank (Number("") is 0) or other text (Number gives NaN).
parseModelWeights(fields) ==
    LET notNaN(f) == f.kind # "text"
        nums == SelectSeq(fields, notNaN)
    IN  [k \in 1..Len(nums) |-> IF nums[k].kind = "blank" THEN 0 ELSE nums[k].val]

\* a comparison that rejects only a string with too many numbers
modelWeightsTooMany(arr) == Len(arr) > ModelWeightCount

\* arr.length !== 5
modelWeightsInvalid(arr) == Len(arr) # ModelWeightCount

---------------------------------------------------------------------------
\* Results of execute.

\* a catch block that swallows the error and returns nothing
errorResultSwallowed(msg) == <<>>

\* the catch block: one element carrying error: true and the message
errorResult(msg) == << [error |-> TRUE, message |-> msg] >>

\* no check of the input items at all
inputMissingNever(items) == FALSE

\* !items?.length
inputMissing(items) == Len(items) = 0

\* a short-circuit that forgets the query tokens
emptyDocsOnly(q, d) == Len(d) = 0

\* !qTok.length || !docs.length
emptyShortCircuit(q, d) == Len(q) = 0 \/ Len(d) = 0

---------------------------------------------------------------------------
\* The four raw signals of a document.

cos(a, b) ==
    IF Len(a) = 0 \/ Len(b) = 0 \/ Len(a) # Len(b) THEN 0
    ELSE LET S[k \in 0..Len(a)] ==
                 IF k = 0 THEN [dot |-> 0, na |-> 0, nb |-> 0]
                 ELSE [dot |-> S[k - 1].dot + a[k] * b[k],
                       na  |-> S[k - 1].na + a[k] * a[k],
                       nb  |-> S[k - 1].nb + b[k] * b[k]]
             denom == Sqrt(S[Len(a)].na) * Sqrt(S[Len(a)].nb)
         IN  IF denom # 0 THEN (S[Len(a)].dot * 1000) \div denom ELSE 0

semantic(it, qEmb, c) ==
    IF c.useExternalScore
    THEN (IF it.score # <<>> THEN it.score[1] ELSE 0)
    ELSE (IF Len(qEmb) # 0 /\ Len(it.embedding) # 0 THEN cos(qEmb, it.embedding) ELSE 0)

\* the tokens tok can produce that name a property every plain object ({})
\* inherits from Object.prototype: "constructor"
ObjectPrototypeKeys == { <<"c", "o", "n", "s", "t", "r", "u", "c", "t", "o", "r">> }

NaN == <<>>

\* tfMap[t] || 0, tfMap a plain object filled by tfMap[t] = (tfMap[t] || 0) + 1:
\* under an inherited key the entry is the inherited function, or a string
\* built from it
termFrequency(dTok, t) ==
    IF t \in ObjectPrototypeKeys THEN NaN
    ELSE <<Cardinality({k \in 1..Len(dTok) : dTok[k] = t})>>

\* Math.log((docs.length + 1) / (globalDF[t] || 1))
idf(t, df, n) ==
    IF df[t] = NaN THEN NaN
    ELSE <<LnMilli(n + 1) - LnMilli(IF df[t][1] = 0 THEN 1 ELSE df[t][1])>>

\* idf * (tf * (k1 + 1)) / (tf + k1 * (1 - b + b * (len / avgLen))) with
\* avgLen = sumLen / batchLen, numerator and denominator scaled by 1000 * sumLen
bm25Term(tf, len, sumLen, batchLen, idfv) ==
    IF tf = NaN \/ idfv = NaN THEN NaN
    ELSE <<Div(idfv[1] * tf[1] * (K1x10 + 10) * 100 * sumLen,
               1000 * tf[1] * sumLen
                   + K1x10 * ((100 - Bx100) * sumLen + Bx100 * len * batchLen))>>

\* bm25 += term
addTerm(sum, term) == IF sum = NaN \/ term = NaN THEN NaN ELSE <<sum[1] + term[1]>>

bm25(dTok, q, df, n, sumLen, batchLen) ==
    LET len == IF Len(dTok) = 0 THEN 1 ELSE Len(dTok)
        S[k \in 0..Len(q)] ==
            IF k = 0 THEN <<0>>
            ELSE IF termFrequency(dTok, q[k]) = <<0>> THEN S[k - 1]
            ELSE addTerm(S[k - 1],
                         bm25Term(termFrequency(dTok, q[k]), len, sumLen, batchLen,
                                  idf(q[k], df, n)))
    IN  S[Len(q)]

\* qTok.filter(t => dSet.has(t)).length / qTok.length
exactOverlap(dTok, q) ==
    Div(1000 * Cardinality({k \in 1..Len(q) : q[k] \in Range(dTok)}), Len(q))

\* an age that counts a missing timestamp as the epoch
ageDaysSinceEpoch(it, t) ==
    IF it.timestamp.kind = "epoch" /\ it.timestamp.val # 0
    THEN t - it.timestamp.val
    ELSE t

\* ts ? new Date(ts).getTime() : NaN, then 999 days when that is NaN
ageDays(it, t) ==
    IF it.timestamp.kind = "epoch" /\ it.timestamp.val # 0
    THEN t - it.timestamp.val
    ELSE MissingAgeDays

\* Math.exp(-days / recencyHalfLife)
recency(it, t, c) == ExpNegMilli(Div(ageDays(it, t) * 1000, recencyHalfLife(c)))

---------------------------------------------------------------------------
\* The batch normalizer and the score fusion.

\* Math.min(...vals) and Math.max(...vals): NaN as soon as one value is
SeqMin(vals) ==
    IF NaN \in Range(vals) THEN NaN
    ELSE CHOOSE m \in Range(vals) : \A v \in Range(vals) : m[1] <= v[1]

SeqMax(vals) ==
    IF NaN \in Range(vals) THEN NaN
    ELSE CHOOSE m \in Range(vals) : \A v \in Range(vals) : m[1] >= v[1]

\* (v) => (maxBM25 === minBM25) ? 0 : (v - minBM25) / (maxBM25 - minBM25);
\* NaN === NaN is false
minmaxNorm(v, minBM25, maxBM25) ==
    IF v = NaN \/ minBM25 = NaN \/ maxBM25 = NaN THEN NaN
    ELSE IF maxBM25 = minBM25 THEN <<0>>
    ELSE <<((v[1] - minBM25[1]) * 1000) \div (maxBM25[1] - minBM25[1])>>

\* (v) => 1 / (1 + Math.exp(-v))
sigmoidNorm(v) == IF v = NaN THEN NaN ELSE <<Sigmoid(v[1])>>

\* lines 199-208: the normalizer of one batch, built from its raw values
normBM25(method, vals, v) ==
    IF method = "minmax" THEN minmaxNorm(v, SeqMin(vals), SeqMax(vals)) ELSE sigmoidNorm(v)

\* the weighted hybrid, in millionths
linearScore(p, w) ==
    IF p.bm25n = NaN THEN NaN
    ELSE <<p.sem * w.sem + p.bm25n[1] * w.lex + p.exact * w.exact + p.rec * w.time>>

\* the logistic regression: modelWeights is <<wSem, wBm25, wExact, wRec, bias>>
logisticScore(p, m) ==
    IF p.bm25n = NaN THEN NaN
    ELSE <<Sigmoid((p.sem * m[1] + p.bm25n[1] * m[2] + p.exact * m[3] + p.rec * m[4]
                    + m[5] * 1000) \div 1000) * 1000>>

finalScore(p, c, m) ==
    IF c.useModel /\ m # <<>> THEN logisticScore(p, m) ELSE linearScore(p, W(c))

\* one iteration of the batch loop: what it pushes to results
scoreBatch(batch, start, q, df, n, qEmb, t, c, m) ==
    LET dTok(k) == tok(batch[k].chunk, c)
        L[k \in 0..Len(batch)] == IF k = 0 THEN 0 ELSE L[k - 1] + Len(dTok(k))
        sumLen == L[Len(batch)]
        batchLen == Max(Len(batch), 1)
        pre == [k \in 1..Len(batch) |->
                   [it    |-> batch[k],
                    sem   |-> semantic(batch[k], qEmb, c),
                    bm25  |-> bm25(dTok(k), q, df, n, sumLen, batchLen),
                    exact |-> exactOverlap(dTok(k), q),
                    rec   |-> recency(batch[k], t, c)]]
        vals == [k \in 1..Len(batch) |-> pre[k].bm25]
        withNorm(k) == [sem |-> pre[k].sem, exact |-> pre[k].exact, rec |-> pre[k].rec,
                        bm25n |-> normBM25(normalizeMethod(c), vals, pre[k].bm25)]
    IN  [k \in 1..Len(batch) |->
            [it           |-> pre[k].it,
             rerank_score |-> finalScore(withNorm(k), c, m),
             bm25_raw     |-> pre[k].bm25,
             sem          |-> pre[k].sem,
             exact        |-> pre[k].exact,
             rec          |-> pre[k].rec,
             bm25n        |-> withNorm(k).bm25n,
             batch        |-> start]]

\* the global DF pass, globalDF[t] = (globalDF[t] || 0) + 1: every occurrence
\* of a token in qTok adds one for a document whose token set holds it
dfAddDoc(df, set, q) ==
    [t \in DOMAIN df |->
        IF df[t] = NaN THEN NaN
        ELSE <<df[t][1] + Cardinality({k \in 1..Len(q) : q[k] = t /\ t \in set})>>]

\* globalDF = {}: a token with no entry reads as 0 under || 0 and || 1, and an
\* inherited key reads as the inherited function
computeGlobalDF(q, ds, c) ==
    LET F[k \in 0..Len(ds)] ==
            IF k = 0 THEN [t \in Range(q) |-> IF t \in ObjectPrototypeKeys THEN NaN ELSE <<0>>]
            ELSE dfAddDoc(F[k - 1], Range(tok(ds[k].chunk, c)), q)
    IN  F[Len(ds)]

\* (a, b) => b.json.rerank_score - a.json.rerank_score puts b first when it is
\* positive; a NaN difference counts as 0
sortsBefore(b, a) ==
    b.rerank_score # NaN /\ a.rerank_score # NaN /\ b.rerank_score[1] > a.rerank_score[1]

\* results.sort(...): stable
RECURSIVE insertDesc(_, _)
insertDesc(s, r) ==
    IF s = <<>> THEN <<r>>
    ELSE IF ~sortsBefore(r, s[Len(s)]) THEN Append(s, r)
    ELSE Append(insertDesc(SubSeq(s, 1, Len(s) - 1), r), s[Len(s)])

sortDesc(rs) ==
    LET F[k \in 0..Len(rs)] == IF k = 0 THEN <<>> ELSE insertDesc(F[k - 1], rs[k])
    IN  F[Len(rs)]

\* the record execute returns for a ranked document
ranked(r) == [it |-> r.it, rerank_score |-> r.rerank_score, bm25_raw |-> r.bm25_raw]

rankedOutput(rs, n) ==
    LET top == slice(sortDesc(rs), 0, n)
    IN  [k \in 1..Len(top) |-> ranked(top[k])]

---------------------------------------------------------------------------
\* The inputs and configurations the model draws from.

NoTimestamp == [kind |-> "none", val |-> 0]

\* "xy yx." with no timestamp
DocA == [isNull |-> FALSE, chunk |-> <<"x", "y", " ", "y", "x", ".">>,
         embedding |-> <<3, 4>>, score |-> <<900>>, timestamp |-> NoTimestamp]

\* "Xy xy ab" stamped day 10
DocB == [isNull |-> FALSE, chunk |-> <<"X", "y", " ", "x", "y", " ", "a", "b">>,
         embedding |-> <<4, 3>>, score |-> <<>>,
         timestamp |-> [kind |-> "epoch", val |-> 10]]

\* "an ab" with a timestamp Date cannot parse
DocC == [isNull |-> FALSE, chunk |-> <<"a", "n", " ", "a", "b">>,
         embedding |-> <<>>, score |-> <<200>>,
         timestamp |-> [kind |-> "invalid", val |-> 0]]

\* a null entry of the items array: it.json throws a TypeError
NullDoc == [isNull |-> TRUE, chunk |-> <<>>, embedding |-> <<>>, score |-> <<>>,
            timestamp |-> NoTimestamp]

DocPool == {DocA, DocB, DocC, NullDoc}

\* "Xy", "yx yx", "xy, yx", "an a" (stopwords and short words only) and
\* "constructor"
Queries == { <<"X", "y">>,
             <<"y", "x", " ", "y", "x">>,
             <<"x", "y", ",", " ", "y", "x">>,
             <<"a", "n", " ", "a">>,
             <<"c", "o", "n", "s", "t", "r", "u", "c", "t", "o", "r">> }

validFirst(q, ds) ==
    [query           |-> [isString |-> TRUE, text |-> q],
     query_embedding |-> [isArray |-> TRUE, vec |-> <<3, 4>>],
     items           |-> [isArray |-> TRUE, docs |-> ds]]

ValidInputs == { <<validFirst(q, ds)>> : q \in Queries, ds \in SeqsUpTo(DocPool, MaxDocs) }

InvalidInputs ==
    LET f == validFirst(<<"X", "y">>, <<DocA>>)
    IN  { <<>>,
          << [f EXCEPT !.query.isString = FALSE] >>,
          << [f EXCEPT !.query_embedding.isArray = FALSE] >>,
          << [f EXCEPT !.items.isArray = FALSE] >> }

Inputs == ValidInputs \cup InvalidInputs

\* every parameter missing, so that every default applies
BaseCfg ==
    [topN |-> <<>>, batchSize |-> <<>>, semWeight |-> <<>>, lexWeight |-> <<>>,
     exactWeight |-> <<>>, timeWeight |-> <<>>, useExternalScore |-> FALSE,
     recencyHalfLife |-> <<>>, minTokenLength |-> <<>>, normalizeMethod |-> "",
     customStopwords |-> <<>>, useModel |-> FALSE, modelWeights |-> << [kind |-> "blank", val |-> 0] >>]

num(v) == [kind |-> "num", val |-> v]

\* "0.8,0.5,0.3,0.1,-0.2" and "0.1,0.2"
ModelWeightStrings == { <<num(800), num(500), num(300), num(100), num(-200)>>,
                        <<num(100), num(200)>> }

WeightSets == { <<<<>>, <<>>, <<>>, <<>>>>,
                <<<<0>>, <<300>>, <<0>>, <<700>>>>,
                <<<<500>>, <<300>>, <<100>>, <<100>>>> }

rankingCfgs ==
    { [BaseCfg EXCEPT !.topN = t, !.batchSize = b, !.normalizeMethod = m] :
        t \in {<<-1>>, <<0>>, <<2>>}, b \in {<<-1>>, <<0>>, <<1>>, <<2>>},
        m \in {"sigmoid", "minmax"} }

fusionCfgs ==
    { [BaseCfg EXCEPT !.semWeight = w[1], !.lexWeight = w[2], !.exactWeight = w[3],
                      !.timeWeight = w[4], !.useExternalScore = e] :
        w \in WeightSets, e \in BOOLEAN }

modelCfgs ==
    { [BaseCfg EXCEPT !.useModel = TRUE, !.modelWeights = s, !.normalizeMethod = m] :
        s \in ModelWeightStrings, m \in {"sigmoid", "minmax"} }

tokenizerCfgs ==
    { [BaseCfg EXCEPT !.customStopwords = <<"Y", "X", ",", " ">>],
      [BaseCfg EXCEPT !.minTokenLength = <<3>>] }

Configs == rankingCfgs \cup fusionCfgs \cup modelCfgs \cup tokenizerCfgs

\* Date.now() in days; no document of the pool is stamped later
Nows == {30, 90}

---------------------------------------------------------------------------
\* The state machine.

fresh ==
    /\ pc = "start"
    /\ stages = {}
    /\ warned = FALSE
    /\ qTok = <<>>
    /\ docs = <<>>
    /\ now = 0
    /\ modelWeights = <<>>
    /\ globalDF = <<>>
    /\ i = 0
    /\ results = <<>>
    /\ iter = 0
    /\ out = <<>>

Init ==
    /\ input \in Inputs
    /\ cfg \in Configs
    /\ fresh
    /\ run = 1
    /\ prevOut = <<>>
    /\ prevNow = 0

\* catch (err): the invocation ends with the error result
Catch(msg) ==
    /\ pc' = "done"
    /\ out' = errorResult(msg)

\* lines 69-135: parameters, input validation, query tokens, the empty
\* short-circuit
Validate ==
    /\ pc = "start"
    /\ stages' = stages \cup {"validate"}
    /\ UNCHANGED <<input, cfg, now, modelWeights, globalDF, i, results, iter, run, prevOut, prevNow>>
    /\ IF inputMissing(input)
       THEN Catch("No input items provided.") /\ UNCHANGED <<warned, qTok, docs>>
       ELSE IF Len(input) = 0
       THEN Catch("Cannot read properties of undefined (reading 'json')")
            /\ UNCHANGED <<warned, qTok, docs>>
       ELSE LET first == input[1] IN
            /\ warned' = weightWarning(cfg)
            /\ IF ~first.query.isString
               THEN Catch("Missing or invalid 'query'.") /\ UNCHANGED <<qTok, docs>>
               ELSE IF ~first.query_embedding.isArray
               THEN Catch("Missing or invalid 'query_embedding'.") /\ UNCHANGED <<qTok, docs>>
               ELSE IF ~first.items.isArray
               THEN Catch("Missing or invalid 'items' array.") /\ UNCHANGED <<qTok, docs>>
               ELSE /\ qTok' = tok(trim(toLowerCase(first.query.text)), cfg)
                    /\ docs' = first.items.docs
                    /\ IF emptyShortCircuit(qTok', docs')
                       THEN pc' = "done" /\ out' = <<>>
                       ELSE pc' = "model" /\ out' = out

\* lines 137-148: Date.now() and the optional model weights
ParseModelWeights ==
    /\ pc = "model"
    /\ stages' = stages \cup {"model"}
    /\ \E t \in Nows : now' = t
    /\ UNCHANGED <<input, cfg, warned, qTok, docs, globalDF, i, results, iter, run, prevOut, prevNow>>
    /\ LET arr == parseModelWeights(cfg.modelWeights) IN
       IF cfg.useModel /\ modelWeightsInvalid(arr)
       THEN /\ Catch("Model weights must contain exactly 5 numbers: sem,bm25,exact,rec,bias")
            /\ modelWeights' = modelWeights
       ELSE /\ modelWeights' = IF cfg.useModel THEN arr ELSE <<>>
            /\ pc' = "globalDF"
            /\ out' = out

\* lines 150-155: the global DF pass over the whole candidate list
BuildGlobalDF ==
    /\ pc = "globalDF"
    /\ stages' = stages \cup {"globalDF"}
    /\ UNCHANGED <<input, cfg, warned, qTok, docs, now, modelWeights, i, results, iter, run, prevOut, prevNow>>
    /\ IF \E k \in 1..Len(docs) : docs[k].isNull
       THEN Catch("Cannot read properties of null (reading 'json')") /\ globalDF' = globalDF
       ELSE /\ globalDF' = computeGlobalDF(qTok, docs, cfg)
            /\ pc' = "batches"
            /\ out' = out

\* lines 158-240: one iteration of the batch loop
ScoreBatch ==
    /\ pc = "batches"
    /\ i < Len(docs)
    /\ stages' = stages \cup {"score"}
    /\ results' = results \o scoreBatch(slice(docs, i, i + batchSize(cfg)), i, qTok, globalDF,
                                        Len(docs), input[1].query_embedding.vec, now, cfg,
                                        modelWeights)
    /\ i' = Max(i + batchSize(cfg), -MaxNegIndex)
    /\ iter' = 1 - iter
    /\ UNCHANGED <<input, cfg, pc, warned, qTok, docs, now, modelWeights, globalDF, out, run, prevOut, prevNow>>

\* lines 242-244: the loop has ended; sort in place, slice, return
SortAndSlice ==
    /\ pc = "batches"
    /\ ~(i < Len(docs))
    /\ stages' = stages \cup {"sort"}
    /\ results' = sortDesc(results)
    /\ out' = rankedOutput(results, topN(cfg))
    /\ pc' = "done"
    /\ UNCHANGED <<input, cfg, warned, qTok, docs, now, modelWeights, globalDF, i, iter, run, prevOut, prevNow>>

Next == Validate \/ ParseModelWeights \/ BuildGlobalDF \/ ScoreBatch \/ SortAndSlice

Spec == Init /\ [][Next]_vars

\* the batch loop under every batch size, on the lists of stamped and
\* unstamped documents
InitBatch ==
    /\ input \in { <<validFirst(<<"X", "y">>, ds)>> : ds \in SeqsUpTo({DocA, DocB}, MaxDocs) }
    /\ cfg \in { [BaseCfg EXCEPT !.batchSize = b, !.normalizeMethod = m] :
                    b \in {<<>>, <<-1>>, <<0>>, <<1>>, <<2>>}, m \in {"sigmoid", "minmax"} }
    /\ fresh
    /\ run = 1
    /\ prevOut = <<>>
    /\ prevNow = 0

\* what ScoreBatch and SortAndSlice do to the control state; a step of Next
\* is a LoopStep exactly when it is a ScoreBatch step, and a ReturnStep exactly
\* when it is a SortAndSlice step, and each is enabled exactly when that
\* action is
LoopStep ==
    /\ pc = "batches"
    /\ i < Len(docs)
    /\ pc' = pc
    /\ i' = Max(i + batchSize(cfg), -MaxNegIndex)
    /\ iter' = 1 - iter

ReturnStep ==
    /\ pc = "batches"
    /\ ~(i < Len(docs))
    /\ pc' = "done"
    /\ i' = i
    /\ iter' = iter

\* execute is synchronous and runs to completion: a step that can be taken is
\* taken
FairSpec ==
    /\ InitBatch
    /\ [][Next]_vars
    /\ WF_vars(Validate)
    /\ WF_vars(ParseModelWeights)
    /\ WF_vars(BuildGlobalDF)
    /\ WF_<<pc, i, iter>>(LoopStep)
    /\ WF_<<pc, i, iter>>(ReturnStep)

\* the host invokes execute again on the same input and configuration
Rerun ==
    /\ pc = "done"
    /\ run < MaxRuns
    /\ run' = run + 1
    /\ prevOut' = out
    /\ prevNow' = now
    /\ pc' = "start"
    /\ stages' = {}
    /\ warned' = FALSE
    /\ qTok' = <<>>
    /\ docs' = <<>>
    /\ now' = 0
    /\ modelWeights' = <<>>
    /\ globalDF' = <<>>
    /\ i' = 0
    /\ results' = <<>>
    /\ iter' = 0
    /\ out' = <<>>
    /\ UNCHANGED <<input, cfg>>

InitRerun ==
    /\ input \in Inputs
    /\ cfg \in {BaseCfg, [BaseCfg EXCEPT !.useExternalScore = TRUE, !.timeWeight = <<300>>]}
    /\ fresh
    /\ run = 1
    /\ prevOut = <<>>
    /\ prevNow = 0

NextRerun == Next \/ Rerun

SpecRerun == InitRerun /\ [][NextRerun]_vars

---------------------------------------------------------------------------
\* Vocabulary of the properties, all in terms of the invocation's input and
\* configuration.

returned == pc = "done"

schemaValid ==
    /\ Len(input) = 1
    /\ input[1].query.isString
    /\ input[1].query_embedding.isArray
    /\ input[1].items.isArray

\* the tokens of the query, and the candidate documents, of a schema-valid input
queryTokens == tok(trim(toLowerCase(input[1].query.text)), cfg)

candidates == input[1].items.docs

\* the invocation gets past the empty short-circuit
nothingToRank == queryTokens = <<>> \/ candidates = <<>>

weightsRejected == cfg.useModel /\ Len(parseModelWeights(cfg.modelWeights)) # ModelWeightCount

hasNullDocument == \E k \in 1..Len(candidates) : candidates[k].isNull

modelWeightsMessage == "Model weights must contain exactly 5 numbers: sem,bm25,exact,rec,bias"

\* a well-formed error result: one element, error = true, a message
singleError == Len(out) = 1 /\ DOMAIN out[1] = {"error", "message"}
               /\ out[1].error = TRUE /\ out[1].message # ""

isRanked(o) == \A k \in 1..Len(o) : DOMAIN o[k] = {"it", "rerank_score", "bm25_raw"}

sortedDesc(o) ==
    /\ \A k \in 1..Len(o) : o[k].rerank_score # NaN
    /\ \A k \in 1..(Len(o) - 1) : o[k].rerank_score[1] >= o[k + 1].rerank_score[1]

\* the configured value of a numeric parameter; the documented default when
\* the parameter is missing or not a number
configured(p, d) == IF p = <<>> THEN d ELSE p[1]

ranking == returned /\ "sort" \in stages

---------------------------------------------------------------------------
\* C1.  Every invocation whose query yields a token returns exactly
\* min(topN, number of candidates) documents, for every configured topN, in
\* non-increasing order of rerank_score.  Stated for the invocations that
\* return a ranking and for a configured topN that is a count (>= 0).
C1_TopNLength ==
    (ranking /\ configured(cfg.topN, DefaultTopN) >= 0)
        => /\ Len(out) = Min(configured(cfg.topN, DefaultTopN), Len(docs))
           /\ sortedDesc(out)

\* C2 as stated.  Every failure, invalid model weights included, for every
\* input and configuration, gives the single-element error result.
C2_EveryFailureIsError ==
    returned =>
        ((~schemaValid \/ weightsRejected) => singleError)

\* C2 as amended.  execute always returns either a ranking or the
\* single-element error result; every failure the code checks for gives the
\* error result and no ranked document: no input items, a schema-invalid
\* first item, and, once past the empty short-circuit, invalid model weights or
\* a document the scoring cannot read.
C2_FailuresCaught ==
    returned =>
        /\ singleError \/ isRanked(out)
        /\ (~schemaValid \/ (~nothingToRank /\ (weightsRejected \/ hasNullDocument)))
               => singleError

C2_Witness ==
    /\ returned
    /\ schemaValid
    /\ hasNullDocument
    /\ ~weightsRejected
    /\ "globalDF" \in stages
    /\ singleError

\* C3 as stated.  Learned-model mode with a weights string that does not parse
\* to exactly 5 numbers ends in the error result for every schema-valid query
\* and every candidate list.
C3_AlwaysRejected ==
    (returned /\ schemaValid /\ weightsRejected) => out = errorResult(modelWeightsMessage)

\* C3 as amended.  Such a configuration ends in the ModelConfigInvalid error
\* result, and never gets to the global DF pass or the scoring, whenever the
\* query yields a token and the candidate list is not empty; otherwise the
\* empty short-circuit returns the empty result before the weights are parsed.
C3_RejectedPastShortCircuit ==
    (schemaValid /\ weightsRejected) =>
        /\ pc \in {"start", "model", "done"}
        /\ returned => out = IF nothingToRank THEN <<>> ELSE errorResult(modelWeightsMessage)

C3_Witness ==
    /\ returned
    /\ schemaValid
    /\ weightsRejected
    /\ ~nothingToRank
    /\ out = errorResult(modelWeightsMessage)

\* C4 as stated.  An empty candidate array `items` gives the InputMissing
\* error result.
C4_EmptyItemsIsError ==
    (returned /\ schemaValid /\ candidates = <<>>) => singleError

\* C4 as amended.  An invocation with no input items at all gives the
\* InputMissing error result; an empty candidate array `items` of a
\* schema-valid input gives the empty result, which is not an error.
C4_InputMissing ==
    returned =>
        /\ input = <<>> => out = errorResult("No input items provided.")
        /\ (schemaValid /\ candidates = <<>>) => out = <<>>

C4_Witness == returned /\ input = <<>> /\ singleError

\* C5.  For a schema-valid input whose query yields no token, or whose
\* candidate set is empty, execute returns the empty result, not an error, and
\* returns it before any global DF, BM25 or exact-overlap computation; the
\* scoring never runs with an empty query-token sequence.
C5_EmptyShortCircuit ==
    /\ (returned /\ schemaValid /\ nothingToRank)
           => /\ out = <<>>
              /\ stages = {"validate"}
              /\ globalDF = <<>>
              /\ results = <<>>
    /\ (stages \cap {"globalDF", "score"} # {}) => Len(qTok) > 0 /\ Len(docs) > 0

C5_Witness ==
    /\ returned
    /\ schemaValid
    /\ queryTokens = <<>>
    /\ candidates # <<>>
    /\ out = <<>>

\* the number of distinct documents of the whole candidate set whose token
\* set holds t
documentFrequency(t) ==
    Cardinality({k \in 1..Len(docs) : t \in Range(tok(docs[k].chunk, cfg))})

\* C6.  For every query, candidate set and batch size, the global DF of a
\* query token is the number of distinct documents whose token set holds it,
\* from the first batch on.
C6_GlobalDFCounts ==
    (pc = "batches" \/ ranking) =>
        \A t \in Range(qTok) : globalDF[t] = <<documentFrequency(t)>>

\* C7.  In linear mode every document's rerank_score is the weighted sum of
\* its four signals with exactly the configured weights, a default standing in
\* only for a weight that is missing or not a number.
C7_ConfiguredWeights ==
    (~cfg.useModel) =>
        \A k \in 1..Len(results) :
            /\ results[k].bm25n # NaN
            /\ results[k].rerank_score =
                  << results[k].sem * configured(cfg.semWeight, DefaultSemWeight)
                     + results[k].bm25n[1] * configured(cfg.lexWeight, DefaultLexWeight)
                     + results[k].exact * configured(cfg.exactWeight, DefaultExactWeight)
                     + results[k].rec * configured(cfg.timeWeight, DefaultTimeWeight) >>

\* a document whose timestamp the recency signal reads
stamped(d) == d.timestamp.kind = "epoch" /\ d.timestamp.val # 0

secondRunDone == returned /\ run > 1

\* C8 as stated.  Two runs on the same input and configuration return the
\* same output whatever the time of each run.
C8_SameOutput == secondRunDone => out = prevOut

\* C8 as amended.  Two runs on the same input and configuration return the
\* same output when both read the same time, and whatever the time of each
\* when no candidate document carries a timestamp the recency signal reads.
C8_SameOutputSameClock ==
    (secondRunDone /\ (now = prevNow \/ ~schemaValid
                       \/ \A k \in 1..Len(candidates) : ~stamped(candidates[k])))
        => out = prevOut

C8_Witness ==
    /\ secondRunDone
    /\ now # prevNow
    /\ "sort" \in stages
    /\ Len(out) > 1
    /\ out = prevOut

\* C9.  For every numeric batchSize the batch loop ends: the invocation
\* returns.
C9_Terminates == <>returned

\* the results pushed by the batch that pushed results[k]
sameBatch(k) == {j \in 1..Len(results) : results[j].batch = results[k].batch}

batchMin(k) == CHOOSE m \in {results[j].bm25_raw[1] : j \in sameBatch(k)} :
                   \A j \in sameBatch(k) : m <= results[j].bm25_raw[1]

batchMax(k) == CHOOSE m \in {results[j].bm25_raw[1] : j \in sameBatch(k)} :
                   \A j \in sameBatch(k) : m >= results[j].bm25_raw[1]

\* C10.  With normalizeMethod = minmax the normalized BM25 of a document is
\* (raw - min) / (max - min) over the raw BM25 of its own batch, lies in
\* [0, 1], and is 0 throughout a batch whose maximum equals its minimum.
C10_MinMaxPerBatch ==
    (normalizeMethod(cfg) = "minmax") =>
        \A k \in 1..Len(results) :
            /\ results[k].bm25n # NaN
            /\ results[k].bm25n[1] >= 0
            /\ results[k].bm25n[1] <= 1000
            /\ \A j \in sameBatch(k) : results[j].bm25_raw # NaN
            /\ batchMax(k) = batchMin(k) => results[k].bm25n[1] = 0
            /\ batchMax(k) # batchMin(k) =>
                   results[k].bm25n[1] =
                       ((results[k].bm25_raw[1] - batchMin(k)) * 1000)
                           \div (batchMax(k) - batchMin(k))

====
